---- MODULE Spec2Model ----
(***************************************************************************)
(* The three scripts of the repository as state machines.                  *)
(*   variant "google" : CrewAI Flow + Wikipedia + Nvidia API + LLM + Google *)
(*   variant "wiki"   : CrewAI Flow + Wikipedia + Nvidia API + LLM +Google  *)
(*   variant "ultimate": Ultimate CrewAI Flow                               *)
(* Text is modelled by TLA+ strings; printed and logged lines are kept in  *)
(* out, the lines input() returned in read, and the external calls made    *)
(* (with what the outside world answered) in calls.                        *)
(***************************************************************************)
EXTENDS Integers, Sequences, FiniteSets, TLC

VARIABLES
    variant,         \* which script runs
    pc,              \* position of the script
    read,            \* lines returned by input(), in order
    tasks,           \* crewai_flow: the list tasks
    assigned_tasks,  \* crewai_flow: the list the for loop iterates
    idx,             \* crewai_flow: 1-based position of the for loop
    result,          \* crewai_flow: result of developer.write_code
    qa_result,       \* crewai_flow: result of qa.test_code
    out,             \* lines printed or logged so far
    calls,           \* external calls made so far, with their outcome
    raised,          \* the exception that ended the run, or NoException
    config_file      \* ultimate: config.json on disk

vars == <<variant, pc, read, tasks, assigned_tasks, idx, result, qa_result,
          out, calls, raised, config_file>>

----------------------------------------------------------------------------
(* Bounds of the model.                                                    *)

MaxTasks == 2
MaxFragments == 3
MaxLines == 3

(* page.summary[:500]                                                      *)
SummaryLimit == 500

----------------------------------------------------------------------------
(* Python string operations.                                               *)

UpperChars == "ABCDEFGHIJKLMNOPQRSTUVWXYZ"
LowerChars == "abcdefghijklmnopqrstuvwxyz"
WhitespaceChars == {" ", "\t", "\n", "\r"}

CharAt(s, i) == SubSeq(s, i, i)

\* The upper-case letters and what str.lower() makes of each.
LowerOf ==
    [c \in {CharAt(UpperChars, i) : i \in 1..Len(UpperChars)} |->
        LET i == CHOOSE k \in 1..Len(UpperChars) : CharAt(UpperChars, k) = c
        IN  CharAt(LowerChars, i)]

lower_char(c) == IF c \in DOMAIN LowerOf THEN LowerOf[c] ELSE c

RECURSIVE lower_from(_, _)
lower_from(s, i) ==
    IF i > Len(s) THEN "" ELSE lower_char(CharAt(s, i)) \o lower_from(s, i + 1)

\* str.lower()
lower(s) == lower_from(s, 1)

\* sub in s
contains(sub, s) ==
    \E i \in 1..(Len(s) - Len(sub) + 1) : SubSeq(s, i, i + Len(sub) - 1) = sub

RECURSIVE lstrip(_)
lstrip(s) ==
    IF Len(s) > 0 /\ CharAt(s, 1) \in WhitespaceChars
    THEN lstrip(SubSeq(s, 2, Len(s)))
    ELSE s

RECURSIVE rstrip(_)
rstrip(s) ==
    IF Len(s) > 0 /\ CharAt(s, Len(s)) \in WhitespaceChars
    THEN rstrip(SubSeq(s, 1, Len(s) - 1))
    ELSE s

\* str.strip()
strip(s) == rstrip(lstrip(s))

\* s[:n]
slice_to(s, n) == SubSeq(s, 1, IF Len(s) < n THEN Len(s) ELSE n)

RECURSIVE concat_all(_)
concat_all(ss) ==
    IF ss = <<>> THEN "" ELSE Head(ss) \o concat_all(Tail(ss))

RECURSIVE repeat(_, _)
repeat(s, n) == IF n = 0 THEN "" ELSE s \o repeat(s, n - 1)

----------------------------------------------------------------------------
(* Exceptions.                                                             *)

NoException == [type |-> "", msg |-> ""]
Exc(t, m) == [type |-> t, msg |-> m]

----------------------------------------------------------------------------
(* The outside world of the hand-rolled variants: what each external call  *)
(* can answer.                                                             *)

ShortSummary == "X is a person."
PageSummary == "X (born 1970) is a person."
LongPageSummary == repeat("lorem ipsum ", 50)

SummaryOutcomes ==
    { [status |-> "raise", text |-> "summary unavailable"],
      [status |-> "ok", text |-> ShortSummary] }

PageOutcomes ==
    { [status |-> "raise", text |-> "page lookup unavailable"],
      [status |-> "missing", text |-> ""],
      [status |-> "exists", text |-> PageSummary],
      [status |-> "exists", text |-> LongPageSummary] }

SearchOutcomes ==
    { [status |-> "raise", urls |-> <<>>],
      [status |-> "ok", urls |-> <<>>],
      [status |-> "ok", urls |-> <<"https://example.org/x">>] }

Call(api, status, text) == [api |-> api, status |-> status, text |-> text]

----------------------------------------------------------------------------
(* DeveloperAgent.write_code                                               *)

Returns(value, prints, made) ==
    [returns |-> TRUE, value |-> value, exc |-> NoException,
     prints |-> prints, calls |-> made]

Raises(exc, prints, made) ==
    [returns |-> FALSE, value |-> "", exc |-> exc,
     prints |-> prints, calls |-> made]

IsQuestionCaseSensitive(task) ==
    contains("what", task) \/ contains("who", task) \/ contains("net worth", task)

IsQuestion(task) ==
    \/ contains("what", lower(task))
    \/ contains("who", lower(task))
    \/ contains("net worth", lower(task))

QuestionNotice(v) ==
    IF v = "google"
    THEN "Developer: Detected a question. Fetching answer from Wikipedia or Google."
    ELSE "Developer: Detected a question. Fetching answer from Wikipedia."

NoPageResult == "Developer: No Wikipedia page found for this query."
NoInfoResult == "Developer: No relevant information found on Wikipedia or Google."

task_result_lowered(task) == "Code for " \o lower(task) \o " completed."

task_result(task) == "Code for " \o task \o " completed."

\* The Google stage of the first variant.
google_fallback(task, prints, made, google) ==
    LET p == Append(prints, "Developer: No Wikipedia page found. Trying Google Search.")
    IN  IF google.status = "raise"
        THEN Raises(Exc("Exception", "google search failed"), p,
                    Append(made, Call("googlesearch.search", "raise", "")))
        ELSE IF google.urls # <<>>
        THEN Returns("Google Search result: " \o google.urls[1], p,
                     Append(made, Call("googlesearch.search", "ok", google.urls[1])))
        ELSE Returns(NoInfoResult, p,
                     Append(made, Call("googlesearch.search", "empty", "")))

\* The except branch: wikipedia-api, then (first variant) Google.
wiki_fallback(v, task, prints, made, page, google) ==
    LET p == Append(prints, "Developer: Falling back to wikipedia-api for detailed search.")
    IN  IF page.status = "raise"
        THEN Raises(Exc("Exception", page.text), p,
                    Append(made, Call("wikipediaapi.page", "raise", "")))
        ELSE IF page.status = "exists"
        THEN Returns(slice_to(page.text, SummaryLimit), p,
                     Append(made, Call("wikipediaapi.page", "exists", page.text)))
        ELSE LET m == Append(made, Call("wikipediaapi.page", "missing", ""))
             IN  IF v = "google"
                 THEN google_fallback(task, p, m, google)
                 ELSE Returns(NoPageResult, p, m)

write_code(v, task, summary, page, google) ==
    LET p0 == <<"Developer: Processing task: " \o task>>
    IN  IF IsQuestion(task)
        THEN LET p1 == Append(p0, QuestionNotice(v))
             IN  IF summary.status = "ok"
                 THEN Returns(summary.text,
                              Append(p1, "Developer: Wikipedia summary: " \o summary.text),
                              <<Call("wikipedia.summary", "ok", summary.text)>>)
                 ELSE wiki_fallback(v, task, p1,
                                    <<Call("wikipedia.summary", "raise", "")>>,
                                    page, google)
        ELSE Returns(task_result(task),
                     Append(p0, "Developer: Writing code for task: " \o task),
                     <<>>)

----------------------------------------------------------------------------
(* The other agents.                                                       *)

initialize_project(ts) == ts
initialize_project_print == "Project Manager: Initializing project and assigning tasks."

test_code_rejecting(code) == "Code or answer failed QA."

test_code(code) == "Code or answer passed QA."
test_code_print(code) == "QA Agent: Testing code or answer: " \o code

deploy_code(code) == "Code or answer deployed successfully."
deploy_code_print(code) == "DevOps Agent: Deploying code or answer: " \o code

send_update_print(message) ==
    "Client Communication Agent: Sending update to client: " \o message

get_feedback == "Client feedback: Everything looks good!"
review_feedback_print(feedback) ==
    "Project Manager: Reviewing client feedback: " \o feedback

----------------------------------------------------------------------------
(* crewai_flow                                                             *)

FlowVariants == {"google", "wiki"}

FlowBanner == "Enter the tasks for the project (type 'done' to finish):"
FlowPrompt == "> "
NoTasksLine == "No tasks provided. Exiting."
QAFailedLine == "QA failed. Code or answer not deployed."

FlowLines == {"done", "DONE", "done ", "sort a list", "Who is X"}

NoConfigFile == [exists |-> FALSE, content |-> ""]

IsSentinelExact(line) == line = "done"

IsSentinel(line) == lower(line) = "done"

Init ==
    /\ variant \in FlowVariants
    /\ pc = "input"
    /\ read = <<>>
    /\ tasks = <<>>
    /\ assigned_tasks = <<>>
    /\ idx = 0
    /\ result = ""
    /\ qa_result = ""
    /\ out = <<FlowBanner>>
    /\ calls = <<>>
    /\ raised = NoException
    /\ config_file = NoConfigFile

\* One turn of the input loop, and what follows it when the loop breaks.
ReadTask ==
    /\ pc = "input"
    /\ \E line \in FlowLines :
        /\ Len(tasks) < MaxTasks \/ IsSentinel(line)
        /\ read' = Append(read, line)
        /\ IF IsSentinel(line)
           THEN /\ UNCHANGED tasks
                /\ IF tasks = <<>>
                   THEN /\ out' = out \o <<FlowPrompt, NoTasksLine>>
                        /\ pc' = "done"
                        /\ UNCHANGED <<assigned_tasks, idx>>
                   ELSE /\ out' = out \o <<FlowPrompt, initialize_project_print>>
                        /\ assigned_tasks' = initialize_project(tasks)
                        /\ idx' = 1
                        /\ pc' = "dev"
           ELSE /\ tasks' = Append(tasks, line)
                /\ out' = Append(out, FlowPrompt)
                /\ pc' = "input"
                /\ UNCHANGED <<assigned_tasks, idx>>
    /\ UNCHANGED <<variant, result, qa_result, calls, raised, config_file>>

\* result = developer.write_code(task)
DevStep ==
    /\ pc = "dev"
    /\ \E summary \in SummaryOutcomes, page \in PageOutcomes, google \in SearchOutcomes :
        LET task == assigned_tasks[idx]
            r == write_code(variant, task, summary, page, google)
        IN  /\ out' = out \o <<"\nProcessing task: " \o task>> \o r.prints
            /\ calls' = calls \o [k \in 1..Len(r.calls) |->
                                    [task |-> idx, api |-> r.calls[k].api,
                                     status |-> r.calls[k].status,
                                     text |-> r.calls[k].text]]
            /\ IF r.returns
               THEN /\ result' = r.value
                    /\ pc' = "qa"
                    /\ UNCHANGED raised
               ELSE /\ raised' = r.exc
                    /\ pc' = "crashed"
                    /\ UNCHANGED result
    /\ UNCHANGED <<variant, read, tasks, assigned_tasks, idx, qa_result, config_file>>

\* qa_result = qa.test_code(result)
QAStep ==
    /\ pc = "qa"
    /\ qa_result' = test_code(result)
    /\ out' = Append(out, test_code_print(result))
    /\ pc' = "deploy"
    /\ UNCHANGED <<variant, read, tasks, assigned_tasks, idx, result, calls,
                   raised, config_file>>

\* Steps 5 and 6, and the move to the next task or out of the loop.
DeployStep ==
    /\ pc = "deploy"
    /\ IF contains("passed", qa_result)
       THEN out' = out \o <<deploy_code_print(result), deploy_code(result),
                            send_update_print("Task completed: " \o assigned_tasks[idx])>>
       ELSE out' = Append(out, QAFailedLine)
    /\ idx' = idx + 1
    /\ pc' = IF idx = Len(assigned_tasks) THEN "feedback" ELSE "dev"
    /\ UNCHANGED <<variant, read, tasks, assigned_tasks, result, qa_result, calls,
                   raised, config_file>>

\* Step 7
FeedbackStep ==
    /\ pc = "feedback"
    /\ out' = Append(out, review_feedback_print(get_feedback))
    /\ pc' = "done"
    /\ UNCHANGED <<variant, read, tasks, assigned_tasks, idx, result, qa_result,
                   calls, raised, config_file>>

Next == ReadTask \/ DevStep \/ QAStep \/ DeployStep \/ FeedbackStep

Spec == Init /\ [][Next]_vars

----------------------------------------------------------------------------
(* DeveloperAgent.write_code on its own: the flow stands at the developer  *)
(* step of a single task drawn from the concatenations of a few fragments. *)

Fragments == {"wh", "at", "o", "WH", "Net", " ", "worth"}

DevTasks ==
    { concat_all(fs) :
        fs \in UNION { [1..n -> Fragments] : n \in 0..MaxFragments } }

InitDev ==
    /\ variant \in FlowVariants
    /\ pc = "dev"
    /\ \E t \in DevTasks :
        /\ read = <<t, "done">>
        /\ tasks = <<t>>
        /\ assigned_tasks = <<t>>
    /\ idx = 1
    /\ result = ""
    /\ qa_result = ""
    /\ out = <<FlowBanner, FlowPrompt, FlowPrompt, initialize_project_print>>
    /\ calls = <<>>
    /\ raised = NoException
    /\ config_file = NoConfigFile

NextDev == DevStep

SpecDev == InitDev /\ [][NextDev]_vars

----------------------------------------------------------------------------
(* Vocabulary of the properties.                                           *)

\* s = pre + sub + post for some pre and post.
HasSubstring(s, sub) ==
    \E i \in 0..Len(s) : \E j \in i..Len(s) :
        SubSeq(s, 1, i) \o sub \o SubSeq(s, j + 1, Len(s)) = s

StartsWith(s, prefix) ==
    Len(s) >= Len(prefix) /\ SubSeq(s, 1, Len(prefix)) = prefix

LinesWith(prefix) == SelectSeq(out, LAMBDA l : StartsWith(l, prefix))

Printed(line) == \E i \in 1..Len(out) : out[i] = line

ProcessingPrefix == "\nProcessing task: "
DeployPrefix == "DevOps Agent: Deploying code or answer: "
NotifyPrefix == "Client Communication Agent: Sending update to client: Task completed: "
FeedbackPrefix == "Project Manager: Reviewing client feedback: "

DevStepOver == pc \in {"qa", "crashed"}
CurrentTask == assigned_tasks[idx]
QuestionBranchTaken == Printed(QuestionNotice(variant))
TaskBranchTaken == Printed("Developer: Writing code for task: " \o CurrentTask)

KeywordInLowered(t) ==
    \/ HasSubstring(lower(t), "what")
    \/ HasSubstring(lower(t), "who")
    \/ HasSubstring(lower(t), "net worth")

----------------------------------------------------------------------------
\* C1: write_code takes the question branch exactly when the lower-cased
\* task contains "what", "who" or "net worth", and the task branch for
\* every other task.
C1_Classification ==
    DevStepOver =>
        /\ QuestionBranchTaken <=> KeywordInLowered(CurrentTask)
        /\ TaskBranchTaken <=> ~KeywordInLowered(CurrentTask)

C1_Witness ==
    /\ DevStepOver
    /\ CurrentTask = "Net worth"
    /\ QuestionBranchTaken
    /\ ~TaskBranchTaken

\* C2: on the task branch write_code returns "Code for <task> completed."
\* with the task text as typed, and makes no external call.
C2_TaskTemplate ==
    (DevStepOver /\ TaskBranchTaken) =>
        /\ pc = "qa"
        /\ result = "Code for " \o CurrentTask \o " completed."
        /\ calls = <<>>

C2_Witness ==
    /\ pc = "qa"
    /\ CurrentTask = "Net WH"
    /\ TaskBranchTaken
    /\ result = "Code for Net WH completed."

\* What a stage that answered hands back as the result.
Produced(c) ==
    IF c.api = "wikipedia.summary" THEN c.text
    ELSE IF c.api = "wikipediaapi.page" THEN slice_to(c.text, SummaryLimit)
    ELSE "Google Search result: " \o c.text

Answered(c) == c.status \in {"ok", "exists"}

FailureString(v) == IF v = "google" THEN NoInfoResult ELSE NoPageResult

\* C7: on the question branch the summary API is called first, the
\* wikipedia-api lookup only after the summary call raised, the Google
\* search (first variant only) only after the lookup found no page; no
\* stage is called after one that answered; and the result returned is
\* what the answering stage produced, or the fixed failure string when
\* none did.
C7_FallbackChain ==
    (DevStepOver /\ QuestionBranchTaken) =>
        LET n == Len(calls) IN
        /\ n \in 1..3
        /\ calls[1].api = "wikipedia.summary"
        /\ n >= 2 => /\ calls[1].status = "raise"
                     /\ calls[2].api = "wikipediaapi.page"
        /\ n >= 3 => /\ variant = "google"
                     /\ calls[2].status = "missing"
                     /\ calls[3].api = "googlesearch.search"
        /\ \A k \in 1..(n - 1) : ~Answered(calls[k])
        /\ pc = "qa"
        /\ result = IF Answered(calls[n]) THEN Produced(calls[n])
                    ELSE FailureString(variant)

----------------------------------------------------------------------------
(* crewai_flow as a whole.                                                 *)

\* The loop iterations that ran to their end.
Finished == IF pc = "input" \/ tasks = <<>> THEN 0 ELSE idx - 1

\* Task i went through deployment and then client notification, on three
\* consecutive lines of the output.
DeployedThenNotified(i) ==
    \E a \in 1..(Len(out) - 2) :
        /\ StartsWith(out[a], DeployPrefix)
        /\ ~IsQuestion(tasks[i]) =>
              out[a] = DeployPrefix \o "Code for " \o tasks[i] \o " completed."
        /\ out[a + 1] = "Code or answer deployed successfully."
        /\ out[a + 2] = NotifyPrefix \o tasks[i]

C6_NoTasksExit ==
    (Len(read) >= 1 /\ lower(read[1]) = "done") =>
        /\ pc = "done"
        /\ read = <<read[1]>>
        /\ out = <<FlowBanner, FlowPrompt, NoTasksLine>>
        /\ tasks = <<>>
        /\ assigned_tasks = <<>>
        /\ calls = <<>>
        /\ result = ""
        /\ qa_result = ""

C6_Witness ==
    /\ pc = "done"
    /\ read = <<"DONE">>
    /\ Printed(NoTasksLine)

\* C5: no failure of an external call ends the run: whatever an external
\* call raises is caught where it occurs.
C5_ApiFailureContained ==
    /\ pc # "crashed"
    /\ raised = NoException

\* C8: with at least one task entered, the feedback step happens exactly
\* once per run, and only after every task went through all its steps.
C8_FeedbackExactlyOnce ==
    /\ Len(LinesWith(FeedbackPrefix)) <= 1
    /\ Len(LinesWith(FeedbackPrefix)) = 1 =>
          /\ Len(LinesWith(NotifyPrefix)) = Len(tasks)
          /\ StartsWith(out[Len(out)], FeedbackPrefix)
    /\ (pc \in {"done", "crashed"} /\ tasks # <<>>) =>
          Len(LinesWith(FeedbackPrefix)) = 1

\* C9: the task list is the lines read before the first "done" (any
\* letter case), nothing is read after it, and every collected task is
\* processed exactly once, in order, each task's steps ending before the
\* next task starts.
C9_CollectThenProcessEach ==
    /\ \A i \in 1..(Len(read) - 1) : lower(read[i]) # "done"
    /\ pc = "input" => read = tasks
    /\ pc # "input" => /\ read = tasks \o <<read[Len(read)]>>
                       /\ lower(read[Len(read)]) = "done"
    /\ LET started == LinesWith(ProcessingPrefix) IN
       /\ Len(started) <= Len(tasks)
       /\ \A i \in 1..Len(started) : started[i] = ProcessingPrefix \o tasks[i]
       /\ Len(started) - 1 <= Len(LinesWith(NotifyPrefix))
       /\ pc \in {"done", "crashed"} =>
             /\ Len(started) = Len(tasks)
             /\ Len(LinesWith(NotifyPrefix)) = Len(tasks)

----------------------------------------------------------------------------
(* Ultimate CrewAI Flow: configuration, start-up and the main loop.        *)

ConfigName == "config.json"
RequiredKeys == <<"OPENAI_API_KEY", "GOOGLE_API_KEY", "GOOGLE_CSE_ID">>
KeySet == {RequiredKeys[i] : i \in 1..Len(RequiredKeys)}

RECURSIVE join(_, _)
join(ss, sep) ==
    IF ss = <<>> THEN ""
    ELSE IF Len(ss) = 1 THEN ss[1]
    ELSE ss[1] \o sep \o join(Tail(ss), sep)

\* The text of a JSON object holding the keys S.
ObjectText(S) ==
    LET ks == SelectSeq(RequiredKeys, LAMBDA k : k \in S)
    IN  "{" \o join([i \in 1..Len(ks) |-> "\"" \o ks[i] \o "\": \"x\""], ", ") \o "}"

JsonBodies == {ObjectText(S) : S \in SUBSET KeySet} \cup {"", "{", "oops", "[]", "5"}

ConfigFiles ==
    {NoConfigFile}
        \cup {[exists |-> TRUE, content |-> b] : b \in JsonBodies}
        \cup {[exists |-> TRUE, content |-> " " \o b \o "\n"] : b \in JsonBodies}

\* json.loads on the texts above.
json_loads(s) ==
    IF \E S \in SUBSET KeySet : s = ObjectText(S)
    THEN [ok |-> TRUE, type |-> "dict",
          keys |-> CHOOSE S \in SUBSET KeySet : s = ObjectText(S), msg |-> ""]
    ELSE IF s = "[]" THEN [ok |-> TRUE, type |-> "list", keys |-> {}, msg |-> ""]
    ELSE IF s = "5" THEN [ok |-> TRUE, type |-> "int", keys |-> {}, msg |-> ""]
    ELSE [ok |-> FALSE, type |-> "", keys |-> {},
          msg |-> IF StartsWith(s, "{")
                  THEN "Expecting property name enclosed in double quotes: line 1 column 2 (char 1)"
                  ELSE "Expecting value: line 1 column 1 (char 0)"]

Loaded(value) == [exc |-> NoException, config |-> value]
Failed(exc) == [exc |-> exc, config |-> [ok |-> FALSE, type |-> "", keys |-> {}, msg |-> ""]]

\* The body of the try block of load_config.
load_config_try(file) ==
    IF ~file.exists
    THEN Failed(Exc("ConfigError",
            "Configuration file '" \o ConfigName \o "' not found. Please create it."))
    ELSE LET content == strip(file.content) IN
         IF content = ""
         THEN Failed(Exc("ConfigError",
                 "Configuration file '" \o ConfigName
                     \o "' is empty. Please add the required keys."))
         ELSE LET config == json_loads(content) IN
              IF ~config.ok THEN Failed(Exc("JSONDecodeError", config.msg))
              ELSE IF config.type = "int"
              THEN Failed(Exc("TypeError", "argument of type 'int' is not iterable"))
              ELSE LET missing == SelectSeq(RequiredKeys, LAMBDA k : k \notin config.keys)
                   IN  IF missing # <<>>
                       THEN Failed(Exc("ConfigError",
                               "Missing required key '" \o missing[1]
                                   \o "' in configuration file."))
                       ELSE Loaded(config)

load_config_generic(file) ==
    LET r == load_config_try(file) IN
    IF r.exc = NoException THEN r
    ELSE Failed(Exc("ConfigError", "Failed to load configuration"))

load_config(file) ==
    LET r == load_config_try(file) IN
    IF r.exc = NoException THEN r
    ELSE IF r.exc.type = "JSONDecodeError"
    THEN Failed(Exc("ConfigError", "Invalid JSON in configuration file: " \o r.exc.msg))
    ELSE Failed(Exc("ConfigError", "Failed to load configuration: " \o r.exc.msg))

ApisInitializedLine == "INFO - APIs initialized successfully."
MainStartLine ==
    "INFO - Starting CrewAI flow. Type 'exit' to quit or 'help' for instructions."
MainPrompt == "\nAsk a question (or type 'exit' to quit): "
ErrorPrefix == "ERROR - An error occurred: "

MainLines == {"exit", " Exit ", "HELP", "", "  ", "who is x", " q\t"}

KickoffOutcomes ==
    { [status |-> "ok", text |-> "An answer."],
      [status |-> "error", text |-> "kickoff failed"],
      [status |-> "interrupt", text |-> ""] }

InitMain ==
    /\ variant = "ultimate"
    /\ pc = "start"
    /\ read = <<>>
    /\ tasks = <<>>
    /\ assigned_tasks = <<>>
    /\ idx = 0
    /\ result = ""
    /\ qa_result = ""
    /\ out = <<>>
    /\ calls = <<>>
    /\ raised = NoException
    /\ config_file \in ConfigFiles

\* The entry point, up to the first prompt of main().
Startup ==
    /\ pc = "start"
    /\ LET r == load_config(config_file) IN
       IF r.exc # NoException
       THEN /\ raised' = r.exc
            /\ out' = Append(out, "ERROR - " \o r.exc.msg)
            /\ pc' = "done"
            /\ UNCHANGED calls
       ELSE \E built \in BOOLEAN :
            IF built
            THEN /\ calls' = Append(calls, [task |-> 0, api |-> "googleapiclient.build",
                                            status |-> "ok", text |-> ""])
                 /\ out' = out \o <<ApisInitializedLine, MainStartLine>>
                 /\ pc' = "main"
                 /\ UNCHANGED raised
            ELSE /\ calls' = Append(calls, [task |-> 0, api |-> "googleapiclient.build",
                                            status |-> "raise", text |-> ""])
                 /\ raised' = Exc("APIError", "Failed to initialize APIs: build failed")
                 /\ out' = Append(out, "ERROR - Failed to initialize APIs: build failed")
                 /\ pc' = "done"
    /\ UNCHANGED <<variant, read, tasks, assigned_tasks, idx, result, qa_result,
                   config_file>>

CommandCaseSensitive(question) ==
    IF question = "exit" THEN "exit"
    ELSE IF question = "help" THEN "help"
    ELSE IF question = "" THEN "empty"
    ELSE "ask"

\* What main() does with a stripped line.
Command(question) ==
    IF lower(question) = "exit" THEN "exit"
    ELSE IF lower(question) = "help" THEN "help"
    ELSE IF question = "" THEN "empty"
    ELSE "ask"

\* One turn of the loop of main() in which input() returns a line.
MainIter ==
    /\ pc = "main"
    /\ Len(read) < MaxLines
    /\ \E line \in MainLines, kick \in KickoffOutcomes :
        LET question == strip(line)
            cmd == Command(question)
            prompted == Append(out, MainPrompt)
        IN  /\ read' = Append(read, line)
            /\ IF cmd = "exit"
               THEN /\ out' = Append(prompted, "INFO - Exiting the program.")
                    /\ pc' = "done"
                    /\ UNCHANGED <<calls, raised>>
               ELSE IF cmd = "help"
               THEN /\ out' = prompted \o <<"\nHelp:",
                                            "1. Type your question to get an answer.",
                                            "2. Type 'exit' to quit the program.">>
                    /\ UNCHANGED <<pc, calls, raised>>
               ELSE IF cmd = "empty"
               THEN /\ out' = Append(prompted, "WARNING - Please enter a valid question.")
                    /\ UNCHANGED <<pc, calls, raised>>
               ELSE /\ calls' = Append(calls, [task |-> Len(read) + 1, api |-> "crew.kickoff",
                                               status |-> kick.status, text |-> question])
                    /\ IF kick.status = "ok"
                       THEN /\ out' = prompted \o <<"INFO - Processing question: " \o question,
                                                    "\nAnswer: " \o kick.text \o "\n">>
                            /\ UNCHANGED <<pc, raised>>
                       ELSE IF kick.status = "error"
                       THEN /\ out' = prompted \o <<"INFO - Processing question: " \o question,
                                                    ErrorPrefix \o kick.text>>
                            /\ UNCHANGED <<pc, raised>>
                       ELSE /\ out' = prompted \o <<"INFO - Processing question: " \o question,
                                                    "INFO - \nExiting the program.">>
                            /\ raised' = Exc("KeyboardInterrupt", "")
                            /\ pc' = "done"
    /\ UNCHANGED <<variant, tasks, assigned_tasks, idx, result, qa_result, config_file>>

\* KeyboardInterrupt while input() waits.
MainInterrupt ==
    /\ pc = "main"
    /\ out' = out \o <<MainPrompt, "INFO - \nExiting the program.">>
    /\ raised' = Exc("KeyboardInterrupt", "")
    /\ pc' = "done"
    /\ UNCHANGED <<variant, read, tasks, assigned_tasks, idx, result, qa_result,
                   calls, config_file>>

NextMain == Startup \/ MainIter \/ MainInterrupt

SpecMain == InitMain /\ [][NextMain]_vars

----------------------------------------------------------------------------
\* The four failure cases of the configuration file.
ConfigCase(f) ==
    IF ~f.exists THEN "missing file"
    ELSE IF strip(f.content) = "" THEN "empty file"
    ELSE IF ~json_loads(strip(f.content)).ok THEN "invalid JSON"
    ELSE IF json_loads(strip(f.content)).type = "dict"
            /\ json_loads(strip(f.content)).keys # KeySet THEN "missing key"
    ELSE "other"

FailureCases == {"missing file", "empty file", "invalid JSON", "missing key"}

\* C4: a missing file, an empty file, invalid JSON and a JSON object
\* lacking a required key each end load_config with a ConfigError whose
\* message differs from that of every other case, and then no API is
\* initialized and the main loop never starts.
C4_ConfigErrors ==
    (pc # "start" /\ ConfigCase(config_file) \in FailureCases) =>
        /\ raised.type = "ConfigError"
        /\ raised = load_config(config_file).exc
        /\ \A f \in ConfigFiles :
              (ConfigCase(f) \in FailureCases /\ ConfigCase(f) # ConfigCase(config_file))
                  => load_config(f).exc.msg # raised.msg
        /\ pc = "done"
        /\ calls = <<>>
        /\ read = <<>>
        /\ out = <<"ERROR - " \o raised.msg>>

C4_Witness ==
    /\ pc = "done"
    /\ config_file = [exists |-> TRUE,
                      content |-> " " \o ObjectText({"OPENAI_API_KEY", "GOOGLE_API_KEY"}) \o "\n"]
    /\ raised = Exc("ConfigError",
          "Failed to load configuration: Missing required key 'GOOGLE_CSE_ID' in configuration file.")

Asked == SelectSeq(calls, LAMBDA c : c.api = "crew.kickoff")

\* C10: crew.kickoff is invoked exactly for the lines read that, stripped,
\* are non-empty and neither "exit" nor "help" in any letter case; nothing
\* is read after the first "exit"; a kickoff that raises is logged and the
\* loop goes on; and the loop ends only on "exit" or a keyboard interrupt.
C10_MainLoop ==
    LET stripped == [i \in 1..Len(read) |-> strip(read[i])]
        due == SelectSeq(stripped,
                         LAMBDA q : q # "" /\ lower(q) # "exit" /\ lower(q) # "help")
        n == Len(read)
    IN  /\ Len(Asked) = Len(due)
        /\ \A i \in 1..Len(due) : Asked[i].text = due[i]
        /\ \A i \in 1..(n - 1) : lower(stripped[i]) # "exit"
        /\ (n >= 1 /\ lower(stripped[n]) = "exit") => pc = "done"
        /\ Len(LinesWith(ErrorPrefix))
              = Len(SelectSeq(Asked, LAMBDA c : c.status = "error"))
        /\ \A i \in 1..Len(out) :
              StartsWith(out[i], ErrorPrefix) =>
                  IF i = Len(out) THEN pc = "main" ELSE out[i + 1] = MainPrompt
        /\ (pc = "done" /\ Printed(MainStartLine)) =>
              \/ raised.type = "KeyboardInterrupt"
              \/ n >= 1 /\ lower(stripped[n]) = "exit" /\ raised = NoException

C10_Witness ==
    /\ pc = "main"
    /\ read = <<"who is x", "HELP", " q\t">>
    /\ Len(Asked) = 2
    /\ Asked[1].status = "error"
    /\ Asked[2].text = "q"

====
